---- MODULE Spec2Model ----
(***************************************************************************)
(* Submission ingestion pipeline of the education data API:                *)
(*   SubmissionsService.createSubmission (src/src/modules/submissions/     *)
(*   service.ts), the app.submissions / app.submission_events tables and   *)
(*   their constraints (migrations 001, 003, 005), the local artifact      *)
(*   store (src/src/storage/index.ts), the DB-backed cache                 *)
(*   (src/src/core/auth/verify.ts, second half) and the pagination cursor  *)
(*   helpers (src/src/types/storage.ts, last part).                        *)
(*                                                                         *)
(* Every `await` of createSubmission is one atomic step of a call; calls   *)
(* interleave freely between steps.                                        *)
(***************************************************************************)
EXTENDS Integers, Sequences, FiniteSets, TLC

\* ---------------------------------------------------------------- bounds
NumCalls == 2        \* createSubmission calls in one behaviour
NumIds == 2          \* distinct values the id generator can produce

\* ------------------------------------------------------ program constants
MAX_BYTES == 10485760

Procs == 1..NumCalls
Ids == 1..NumIds
Null == "null"

Assignments == {"a1", "a2"}
Students == {"s1"}
Mimes == {"text/plain", "image/jpeg", "application/pdf"}
\* A buffer is its byte length and a tag standing for the bytes themselves
\* (tag 1: the bytes hold a PDF text-layer marker such as "/Font").
Bufs ==
  { [size |-> 0, tag |-> 0],
    [size |-> 5, tag |-> 0],
    [size |-> MAX_BYTES, tag |-> 1],
    [size |-> MAX_BYTES + 1, tag |-> 0] }
Grades == {Null}

\* The requests a behaviour draws from: the small body of assignment a1 as text
\* and as an image (the same bytes under two declared types), the same body for
\* another assignment, a PDF of exactly the maximum size, and an empty and an
\* oversized text body.
Inputs ==
  {in \in [assignmentId : Assignments, studentId : Students, grade : Grades,
           buf : Bufs, mime : Mimes] :
     \/ in.assignmentId = "a1" /\ in.buf.size = 5 /\ in.mime # "application/pdf"
     \/ in.assignmentId = "a2" /\ in.buf.size = 5 /\ in.mime = "text/plain"
     \/ in.assignmentId = "a1" /\ in.buf.size = MAX_BYTES /\ in.mime = "application/pdf"
     \/ in.assignmentId = "a1" /\ in.buf.size \notin {5, MAX_BYTES} /\ in.mime = "text/plain"}

VARIABLES
  pc,           \* position of each call in createSubmission
  call,         \* opts of each call
  loc,          \* locals of each call: submissionId, saved, classification
  result,       \* what each call returned or threw
  prior,        \* the calls that had already returned when a call began
  submissions,  \* rows of app.submissions
  events,       \* rows of app.submission_events, in event_id order
  artifacts,    \* the artifact store: storagePath -> bytes
  cache,        \* rows of app.cache
  dbNow,        \* the database clock, NOW()
  skew,         \* Date.now() of the application minus NOW() of the database
  got,          \* what the last cacheGet returned
  lastSet,      \* per key, the last cacheSet not deleted since: when and with what
  cursorPc,     \* position of the cursor round trip
  cursorN,      \* the offset given to encodeCursor, as its decimal digits
  cursorStr,    \* the cursor string
  cursorOut,    \* the offset decodeCursor returned, as its decimal digits
  request,      \* the POST /submissions request each call came in as
  listPc,       \* position of the GET /submissions handler
  listQuery,    \* its query parameters pageSize and cursor, as received
  listArgs,     \* the limit and offset it passes to the service
  listRes,      \* its response: item count and the X-Next-Cursor header
  backend,      \* STORAGE_PROVIDER: "local" or "azure"
  savePc,       \* position of a saveOriginal call made on its own
  saveArgs,     \* its grade, assignmentId, submissionId and ext
  saveRes,      \* the storagePath it returned, or its error
  sweeper,      \* the background sweeper: its timer, running callbacks and log
  readRes       \* what the last read of the service returned

pipeVars == <<pc, call, loc, result, prior, submissions, events, artifacts>>
cacheVars == <<cache, dbNow, skew, got, lastSet>>
cursorVars == <<cursorPc, cursorN, cursorStr, cursorOut>>
postVars == <<request>>
listVars == <<listPc, listQuery, listArgs, listRes>>
storeVars == <<backend, savePc, saveArgs, saveRes>>
sweeperVars == <<sweeper>>
readVars == <<readRes>>
auxVars == <<postVars, listVars, storeVars, sweeperVars, readVars>>
vars == <<pipeVars, cacheVars, cursorVars, auxVars>>

\* ---------------------------------------------------------- pure helpers

\* Hex SHA-256 of the buffer: a digest determined by the bytes, distinct for
\* distinct bytes.
sha256(buf) == <<"sha256", buf.size, buf.tag>>

pickExt(mime) ==
  CASE mime = "application/pdf" -> ".pdf"
    [] mime = "image/jpeg" -> ".jpg"
    [] mime = "image/png" -> ".png"
    [] mime = "text/plain" -> ".txt"
    [] mime = "application/vnd.openxmlformats-officedocument.wordprocessingml.document" -> ".docx"
    [] OTHER -> ""

\* /\/Font|\/ToUnicode|BT[\s\S]+?ET/ over the head of the buffer.
pdfLikelyHasTextLayer(buf) == buf.tag = 1

\* Mutant: documents are reported parsed without any extracted text.
decideExtraction_NoText(mime, buf) ==
  IF mime = "image/jpeg" \/ mime = "image/png"
    THEN [ocrRequired |-> TRUE, extractionStatus |-> "pending_ocr", extractedText |-> Null]
  ELSE IF mime = "application/pdf" /\ ~pdfLikelyHasTextLayer(buf)
    THEN [ocrRequired |-> TRUE, extractionStatus |-> "pending_ocr", extractedText |-> Null]
  ELSE [ocrRequired |-> FALSE, extractionStatus |-> "parsed", extractedText |-> Null]

\* Mutant: plain text falls through to the conservative fallback.
decideExtraction_TextToOcr(mime, buf) ==
  IF mime = "application/pdf" /\ pdfLikelyHasTextLayer(buf)
    THEN [ocrRequired |-> FALSE, extractionStatus |-> "parsed",
          extractedText |-> "[stub] Extracted text from PDF"]
    ELSE [ocrRequired |-> TRUE, extractionStatus |-> "pending_ocr", extractedText |-> Null]

decideExtraction(mime, buf) ==
  IF mime = "image/jpeg" \/ mime = "image/png"
    THEN [ocrRequired |-> TRUE, extractionStatus |-> "pending_ocr", extractedText |-> Null]
  ELSE IF mime = "application/pdf"
    THEN IF pdfLikelyHasTextLayer(buf)
           THEN [ocrRequired |-> FALSE, extractionStatus |-> "parsed",
                 extractedText |-> "[stub] Extracted text from PDF"]
           ELSE [ocrRequired |-> TRUE, extractionStatus |-> "pending_ocr", extractedText |-> Null]
  ELSE IF mime = "application/vnd.openxmlformats-officedocument.wordprocessingml.document"
          \/ mime = "text/plain"
    THEN [ocrRequired |-> FALSE, extractionStatus |-> "parsed",
          extractedText |-> "[stub] Extracted text from document"]
  ELSE [ocrRequired |-> TRUE, extractionStatus |-> "pending_ocr", extractedText |-> Null]

\* Mutant: the size check rejects the maximum size itself.
TooLarge_AtLimit(buf) == buf.size >= MAX_BYTES

\* `opts.buf.length > 10 * 1024 * 1024`
TooLarge(buf) == buf.size > MAX_BYTES

\* ------------------------------------------------------------- database

\* Mutant: the lookup leaves the content hash out of its WHERE clause.
TripleRows_NoHash(table, a, s, h) ==
  {r \in table : r.assignmentId = a /\ r.studentId = s}

\* SELECT ... WHERE assignment_id = $1 AND student_id = $2 AND sha256 = $3
\* ORDER BY created_at ASC LIMIT 1
TripleRows(table, a, s, h) ==
  {r \in table : r.assignmentId = a /\ r.studentId = s /\ r.sha256 = h}

\* Mutant: the lookup never finds a row.
findByTriple_Miss(table, a, s, h) == {}

findByTriple(table, a, s, h) ==
  LET hits == TripleRows(table, a, s, h)
  IN IF hits = {} THEN {}
     ELSE {CHOOSE r \in hits : \A q \in hits : r.createdAt <= q.createdAt}

\* CHECK (size > 0 AND size <= 10485760) of app.submissions
SizeCheckOk(row) == row.size > 0 /\ row.size <= 10485760

\* submission_id TEXT PRIMARY KEY
PrimaryKeyConflict(table, row) == \E r \in table : r.id = row.id

\* Mutant: the unique index on the triple was never created.
TripletConflict_NoIndex(table, row) == FALSE

\* CREATE UNIQUE INDEX submissions_unique_triplet (assignment_id, student_id, sha256)
TripletConflict(table, row) ==
  \E r \in table : /\ r.assignmentId = row.assignmentId
                   /\ r.studentId = row.studentId
                   /\ r.sha256 = row.sha256

\* Mutant: only the primary key raises unique_violation.
UniqueViolation_PkOnly(table, row) == PrimaryKeyConflict(table, row)

\* SQLSTATE 23505: either unique constraint of app.submissions is violated.
UniqueViolation(table, row) ==
  PrimaryKeyConflict(table, row) \/ TripletConflict(table, row)

\* ------------------------------------------------------- artifact store

\* path.posix.join(grade ? grade : "class", assignmentId, submissionId, "original" + ext)
StoragePath(grade, assignmentId, submissionId, ext) ==
  <<IF grade = Null THEN "class" ELSE grade, assignmentId, submissionId, "original" \o ext>>

\* /^\.[a-z0-9]+$/i on the extension, after a leading dot is enforced
ExtOk(ext) == ext \in {".pdf", ".jpg", ".png", ".txt", ".docx"}

\* Mutant: the write reports success and stores nothing.
WriteFile_Dropped(store, path, buf) == store

\* fs.promises.writeFile(absolutePath, buf): creates or overwrites
WriteFile(store, path, buf) ==
  {f \in store : f.path # path} \cup {[path |-> path, buf |-> buf]}

\* ----------------------------------------------------------- cache store
TTL_MS == 30000

Undefined == "undefined"

DigitChars == <<"0", "1", "2", "3", "4", "5", "6", "7", "8", "9">>

\* The decimal digits of a small natural number, as characters.
RECURSIVE Decimal(_)
Decimal(n) ==
  IF n < 10 THEN <<DigitChars[n + 1]>>
  ELSE Decimal(n \div 10) \o <<DigitChars[(n % 10) + 1]>>

CoursesPrefix == <<"c","o","u","r","s","e","s",":","v","1",":">>

\* `courses:v1:start=${start}:size=${pageSize}`
keyFor(start, pageSize) ==
  CoursesPrefix \o <<"s","t","a","r","t","=">> \o Decimal(start)
    \o <<":","s","i","z","e","=">> \o Decimal(pageSize)

\* key LIKE pattern, with the wildcards % (any run) and _ (any one character)
RECURSIVE LikeMatch(_, _)
LikeMatch(pat, str) ==
  IF pat = <<>> THEN str = <<>>
  ELSE IF Head(pat) = "%"
    THEN LikeMatch(Tail(pat), str) \/ (str # <<>> /\ LikeMatch(pat, Tail(str)))
  ELSE /\ str # <<>>
       /\ (Head(pat) = "_" \/ Head(pat) = Head(str))
       /\ LikeMatch(Tail(pat), Tail(str))

\* SELECT payload FROM app.cache WHERE key = $1 AND expires_at > NOW()
cacheGet(rows, key, now) ==
  LET hit == {e \in rows : e.key = key /\ e.expiresAt > now}
  IN IF hit = {} THEN Undefined ELSE (CHOOSE e \in hit : TRUE).payload

\* expiresAt from the application clock; INSERT ... created_at = NOW()
\* ON CONFLICT (key) DO UPDATE SET payload, expires_at
cacheSet(rows, key, value, ttlMs, appNow, now) ==
  LET expiresAt == appNow + ttlMs
  IN IF \E e \in rows : e.key = key
       THEN {IF e.key = key
               THEN [e EXCEPT !.payload = value, !.expiresAt = expiresAt]
               ELSE e : e \in rows}
       ELSE rows \cup {[key |-> key, payload |-> value, createdAt |-> now,
                        expiresAt |-> expiresAt]}

\* DELETE FROM app.cache WHERE key = $1
cacheDel(rows, key) == {e \in rows : e.key # key}

\* Mutant: the DELETE matches no row.
cacheDelByPrefix_Kept(rows, prefix) == rows

\* DELETE FROM app.cache WHERE key LIKE prefix || '%'
cacheDelByPrefix(rows, prefix) ==
  {e \in rows : ~LikeMatch(prefix \o <<"%">>, e.key)}

\* r.rowCount of that DELETE
cacheDelByPrefixCount(rows, prefix) ==
  Cardinality(rows) - Cardinality(cacheDelByPrefix(rows, prefix))

\* Mutant: the sweep also deletes what expires within the next time unit.
cacheSweepExpired_Early(rows, now) == {e \in rows : ~(e.expiresAt <= now + 1)}

\* DELETE FROM app.cache WHERE expires_at <= NOW()
cacheSweepExpired(rows, now) == {e \in rows : ~(e.expiresAt <= now)}

\* The cacheSet records that still describe a row of the table.
StillSet(sets, rows) == {s \in sets : \E e \in rows : e.key = s.key}

\* ----------------------------------------------------- createSubmission

NoCall == [assignmentId |-> Null, studentId |-> Null, grade |-> Null,
           buf |-> [size |-> 0, tag |-> 0], mime |-> Null]
NoLoc == [submissionId |-> 0, storagePath |-> <<>>, size |-> 0,
          ocrRequired |-> FALSE, extractionStatus |-> Null, extractedText |-> Null,
          conflict |-> Null]
NoResult == [kind |-> "none", submissionId |-> 0, status |-> Null,
             extractionStatus |-> Null, ocrRequired |-> FALSE,
             http |-> 0, code |-> Null, path |-> Null]

Ok(id, es, ocr, path) ==
  [kind |-> "ok", submissionId |-> id, status |-> "received",
   extractionStatus |-> es, ocrRequired |-> ocr, http |-> 0, code |-> Null, path |-> path]

Thrown(http, code, path) ==
  [kind |-> "error", submissionId |-> 0, status |-> Null,
   extractionStatus |-> Null, ocrRequired |-> FALSE, http |-> http, code |-> code,
   path |-> path]

Done(p) == pc[p] = "done"

\* Mutant: a pre-check hit reports the document as parsed whatever the row says.
PrecheckHit_Parsed(h) == Ok(h.id, "parsed", FALSE, "precheck")

\* What the idempotency pre-check returns on a hit.
PrecheckHit(h) == Ok(h.id, h.extractionStatus, h.ocrRequired, "precheck")

\* Entry of a call up to its first query: the defensive max-size check, the
\* content hash and the idempotency pre-check.
Enter(p, in) ==
  LET hit == findByTriple(submissions, in.assignmentId, in.studentId, sha256(in.buf))
  IN /\ call' = [call EXCEPT ![p] = in]
     /\ prior' = [prior EXCEPT ![p] = {q \in Procs : Done(q)}]
     /\ IF TooLarge(in.buf)
          THEN /\ pc' = [pc EXCEPT ![p] = "done"]
               /\ result' = [result EXCEPT ![p] = Thrown(413, "too_large", "size")]
        ELSE IF hit # {}
          THEN /\ pc' = [pc EXCEPT ![p] = "done"]
               /\ result' = [result EXCEPT ![p] = PrecheckHit(CHOOSE r \in hit : TRUE)]
        ELSE /\ pc' = [pc EXCEPT ![p] = "save"]
             /\ UNCHANGED result

\* A direct call of the service.
Call(p) ==
  /\ pc[p] = "idle"
  /\ \A q \in Procs : q < p => pc[q] # "idle"   \* calls are numbered in arrival order
  /\ \E in \in Inputs : Enter(p, in)
  /\ UNCHANGED <<loc, submissions, events, artifacts, cacheVars, cursorVars, auxVars>>

\* `sub_${Date.now().toString(16)}_${Math.random().toString(36).slice(2, 8)}`:
\* any id, one generated before included. Ids are opaque, so they are numbered
\* in the order of their first generation.
CandidateIds ==
  {id \in Ids : \A j \in Ids : j < id => \E q \in Procs : loc[q].submissionId = j}

\* Candidate id, storage.saveOriginal, decideExtraction.
SaveOriginal(p) ==
  /\ pc[p] = "save"
  /\ \E id \in CandidateIds :
       LET ext == pickExt(call[p].mime)
           path == StoragePath(call[p].grade, call[p].assignmentId, id, ext)
           d == decideExtraction(call[p].mime, call[p].buf)
       IN IF ~ExtOk(ext)
            THEN /\ pc' = [pc EXCEPT ![p] = "done"]
                 /\ result' = [result EXCEPT ![p] = Thrown(500, "invalid_ext", "save")]
                 /\ UNCHANGED <<loc, artifacts>>
            ELSE /\ artifacts' = WriteFile(artifacts, path, call[p].buf)
                 /\ loc' = [loc EXCEPT ![p] =
                              [submissionId |-> id, storagePath |-> path,
                               size |-> call[p].buf.size,
                               ocrRequired |-> d.ocrRequired,
                               extractionStatus |-> d.extractionStatus,
                               extractedText |-> d.extractedText,
                               conflict |-> Null]]
                 /\ pc' = [pc EXCEPT ![p] = "insert"]
                 /\ UNCHANGED result
  /\ UNCHANGED <<call, prior, submissions, events, cacheVars, cursorVars, auxVars>>

NewRow(p) ==
  [id |-> loc[p].submissionId,
   assignmentId |-> call[p].assignmentId,
   studentId |-> call[p].studentId,
   mime |-> call[p].mime,
   size |-> loc[p].size,
   sha256 |-> sha256(call[p].buf),
   storagePath |-> loc[p].storagePath,
   status |-> "received",
   extractionStatus |-> loc[p].extractionStatus,
   ocrRequired |-> loc[p].ocrRequired,
   extractedText |-> loc[p].extractedText,
   createdAt |-> Cardinality(submissions) + 1]

\* Mutant: the insert replaces the row it conflicts with (an upsert).
Insert_Upsert(p) ==
  /\ pc[p] = "insert"
  /\ LET row == NewRow(p)
     IN IF ~SizeCheckOk(row)
          THEN /\ pc' = [pc EXCEPT ![p] = "done"]
               /\ result' = [result EXCEPT ![p] = Thrown(500, "23514", "insert")]
               /\ UNCHANGED <<loc, submissions>>
        ELSE /\ submissions' =
                  {r \in submissions : ~(r.id = row.id \/ TripleRows({r}, row.assignmentId,
                                            row.studentId, row.sha256) # {})} \cup {row}
             /\ pc' = [pc EXCEPT ![p] = "created"]
             /\ UNCHANGED <<loc, result>>
  /\ UNCHANGED <<call, prior, events, artifacts, cacheVars, cursorVars, auxVars>>

\* INSERT INTO app.submissions, and the catch that tells 23505 apart.
Insert(p) ==
  /\ pc[p] = "insert"
  /\ LET row == NewRow(p)
     IN IF ~SizeCheckOk(row)
          THEN /\ pc' = [pc EXCEPT ![p] = "done"]
               /\ result' = [result EXCEPT ![p] = Thrown(500, "23514", "insert")]
               /\ UNCHANGED <<loc, submissions>>
        ELSE IF UniqueViolation(submissions, row)
          THEN /\ pc' = [pc EXCEPT ![p] = "requery"]
               /\ loc' = [loc EXCEPT ![p].conflict =
                            IF TripletConflict(submissions, row) THEN "triplet" ELSE "pkey"]
               /\ UNCHANGED <<result, submissions>>
        ELSE /\ submissions' = submissions \cup {row}
             /\ pc' = [pc EXCEPT ![p] = "created"]
             /\ UNCHANGED <<loc, result>>
  /\ UNCHANGED <<call, prior, events, artifacts, cacheVars, cursorVars, auxVars>>

\* Mutant: the loser of the race writes a created event for the winner's row.
Requery_Emits(p) ==
  /\ pc[p] = "requery"
  /\ LET hit == findByTriple(submissions, call[p].assignmentId, call[p].studentId,
                             sha256(call[p].buf))
     IN /\ pc' = [pc EXCEPT ![p] = "done"]
        /\ result' = [result EXCEPT ![p] =
             IF hit # {}
               THEN LET h == CHOOSE r \in hit : TRUE
                    IN Ok(h.id, h.extractionStatus, h.ocrRequired, "race")
               ELSE Thrown(500, "23505", "requery")]
        /\ events' = IF hit # {}
                       THEN Append(events, [submissionId |-> (CHOOSE r \in hit : TRUE).id,
                                            eventType |-> "submission.created"])
                       ELSE events
  /\ UNCHANGED <<call, loc, prior, submissions, artifacts, cacheVars, cursorVars, auxVars>>

\* After a unique_violation: re-query by the triple, return the winner or rethrow.
Requery(p) ==
  /\ pc[p] = "requery"
  /\ LET hit == findByTriple(submissions, call[p].assignmentId, call[p].studentId,
                             sha256(call[p].buf))
     IN /\ pc' = [pc EXCEPT ![p] = "done"]
        /\ result' = [result EXCEPT ![p] =
             IF hit # {}
               THEN LET h == CHOOSE r \in hit : TRUE
                    IN Ok(h.id, h.extractionStatus, h.ocrRequired, "race")
               ELSE Thrown(500, "23505", "requery")]
  /\ UNCHANGED <<call, loc, prior, submissions, events, artifacts, cacheVars, cursorVars, auxVars>>

Event(id, type) == [submissionId |-> id, eventType |-> type]

\* Mutant: the first event is written under the legacy type.
EmitCreated_Legacy(p) ==
  /\ pc[p] = "created"
  /\ events' = Append(events, Event(loc[p].submissionId, "submission.received"))
  /\ pc' = [pc EXCEPT ![p] = "invalidate"]
  /\ UNCHANGED <<call, loc, result, prior, submissions, artifacts, cacheVars, cursorVars, auxVars>>

\* Mutant: the created event is not written.
EmitCreated_Skipped(p) ==
  /\ pc[p] = "created"
  /\ pc' = [pc EXCEPT ![p] = "invalidate"]
  /\ UNCHANGED <<call, loc, result, prior, submissions, events, artifacts, cacheVars, cursorVars, auxVars>>

\* INSERT INTO app.submission_events ... 'submission.created'
EmitCreated(p) ==
  /\ pc[p] = "created"
  /\ events' = Append(events, Event(loc[p].submissionId, "submission.created"))
  /\ pc' = [pc EXCEPT ![p] = "invalidate"]
  /\ UNCHANGED <<call, loc, result, prior, submissions, artifacts, cacheVars, cursorVars, auxVars>>

\* cacheDelByPrefix("courses:v1:")
Invalidate(p) ==
  /\ pc[p] = "invalidate"
  /\ cache' = cacheDelByPrefix(cache, CoursesPrefix)
  /\ lastSet' = StillSet(lastSet, cache')
  /\ pc' = [pc EXCEPT ![p] = "followup"]
  /\ UNCHANGED <<call, loc, result, prior, submissions, events, artifacts, dbNow, skew, got,
                 cursorVars, auxVars>>

\* The follow-up event, then the return of the caller's own outcome.
FollowUp(p) ==
  /\ pc[p] = "followup"
  /\ events' =
       IF loc[p].extractionStatus = "parsed"
         THEN Append(events, Event(loc[p].submissionId, "submission.parsed"))
       ELSE IF loc[p].ocrRequired
         THEN Append(events, Event(loc[p].submissionId, "submission.ocr_pending"))
       ELSE events
  /\ pc' = [pc EXCEPT ![p] = "done"]
  /\ result' = [result EXCEPT ![p] =
                  Ok(loc[p].submissionId, loc[p].extractionStatus, loc[p].ocrRequired,
                     "inserted")]
  /\ UNCHANGED <<call, loc, prior, submissions, artifacts, cacheVars, cursorVars, auxVars>>

\* GET /courses on a cache miss: the page is built and cached (a hit serves the
\* cached page and changes nothing).
CoursesList ==
  LET key == keyFor(0, 50)
  IN /\ cacheGet(cache, key, dbNow) = Undefined
     /\ cache' = cacheSet(cache, key, "page", TTL_MS, dbNow + skew, dbNow)
     /\ lastSet' = {s \in lastSet : s.key # key}
          \cup {[key |-> key, at |-> dbNow, ttl |-> TTL_MS, value |-> "page"]}
     /\ UNCHANGED <<pipeVars, dbNow, skew, got, cursorVars, auxVars>>

PipeInit ==
  /\ pc = [p \in Procs |-> "idle"]
  /\ call = [p \in Procs |-> NoCall]
  /\ loc = [p \in Procs |-> NoLoc]
  /\ result = [p \in Procs |-> NoResult]
  /\ prior = [p \in Procs |-> {}]
  /\ submissions = {}
  /\ events = <<>>
  /\ artifacts = {}

\* A body field that was not sent, a request without a file part, and a
\* body without editorText.
Missing == <<"undefined">>
NoFile == [present |-> FALSE, buffer |-> [size |-> 0, tag |-> 0], mimetype |-> Null]
NoText == [present |-> FALSE, buffer |-> [size |-> 0, tag |-> 0]]

NoRequest == [assignmentId |-> Missing, studentId |-> Missing, grade |-> Null,
              file |-> NoFile, editorText |-> NoText]

NoQuery == [pageSize |-> Missing, cursor |-> <<>>]
NoArgs == [limit |-> 0, offset |-> 0]
NoResponse == [items |-> 0, header |-> <<>>, total |-> 0]

NoSave == [grade |-> <<>>, assignmentId |-> <<>>, submissionId |-> <<>>, ext |-> <<>>]
NoSaved == [kind |-> "none", storagePath |-> <<>>, error |-> Null]

NoRead == [op |-> "none", rows |-> {}, locator |-> <<>>]

NoSweeper == [started |-> FALSE, timer |-> FALSE, running |-> 0, runs |-> 0,
              errors |-> 0, ticksAfterError |-> 0, crashed |-> FALSE]

AuxInit ==
  /\ request = [p \in Procs |-> NoRequest]
  /\ listPc = "idle"
  /\ listQuery = NoQuery
  /\ listArgs = NoArgs
  /\ listRes = NoResponse
  /\ backend = "local"
  /\ savePc = "idle"
  /\ saveArgs = NoSave
  /\ saveRes = NoSaved
  /\ sweeper = NoSweeper
  /\ readRes = NoRead

NoGet == [key |-> <<>>, value |-> Undefined]

CursorIdle ==
  /\ cursorPc = "idle"
  /\ cursorN = <<"0">>
  /\ cursorStr = <<>>
  /\ cursorOut = <<"0">>

Init ==
  /\ PipeInit
  /\ cache = {}
  /\ dbNow = 0
  /\ skew = 0
  /\ got = NoGet
  /\ lastSet = {}
  /\ CursorIdle
  /\ AuxInit

Next ==
  \/ \E p \in Procs :
       \/ Call(p)
       \/ SaveOriginal(p)
       \/ Insert(p)
       \/ Requery(p)
       \/ EmitCreated(p)
       \/ Invalidate(p)
       \/ FollowUp(p)
  \/ CoursesList

Spec == Init /\ [][Next]_vars

\* ============================================================ cache store
\* The cache on its own: callers set, read and delete entries while the
\* database clock advances and the sweeper runs; the application clock differs
\* from the database clock by a fixed offset.

MaxTime == 3         \* ticks of the database clock in one behaviour
MaxSkew == 1         \* largest offset between the two clocks, either way
MaxTtl == 2          \* largest ttl a caller passes

CacheKeys == {<<"a", "b">>, <<"b">>}
CachePrefixes == {<<"a">>, <<"b">>, <<"_">>, <<"a", "%", "x">>}
CacheValues == {"v1", "v2"}
Ttls == 1..MaxTtl
Skews == (0 - MaxSkew)..MaxSkew

CacheSet(k, v, ttl) ==
  /\ cache' = cacheSet(cache, k, v, ttl, dbNow + skew, dbNow)
  /\ lastSet' = {s \in lastSet : s.key # k}
       \cup {[key |-> k, at |-> dbNow, ttl |-> ttl, value |-> v]}
  /\ UNCHANGED <<pipeVars, dbNow, skew, got, cursorVars, auxVars>>

CacheGet(k) ==
  /\ got' = [key |-> k, value |-> cacheGet(cache, k, dbNow)]
  /\ UNCHANGED <<pipeVars, cache, dbNow, skew, lastSet, cursorVars, auxVars>>

CacheDel(k) ==
  /\ cache' = cacheDel(cache, k)
  /\ lastSet' = StillSet(lastSet, cache')
  /\ UNCHANGED <<pipeVars, dbNow, skew, got, cursorVars, auxVars>>

CacheDelByPrefix(prefix) ==
  /\ cache' = cacheDelByPrefix(cache, prefix)
  /\ lastSet' = StillSet(lastSet, cache')
  /\ UNCHANGED <<pipeVars, dbNow, skew, got, cursorVars, auxVars>>

\* One run of the background sweeper.
Sweep ==
  /\ cache' = cacheSweepExpired(cache, dbNow)
  /\ UNCHANGED <<pipeVars, dbNow, skew, got, lastSet, cursorVars, auxVars>>

\* Time passes on both clocks.
Tick ==
  /\ dbNow < MaxTime
  /\ dbNow' = dbNow + 1
  /\ UNCHANGED <<pipeVars, cache, skew, got, lastSet, cursorVars, auxVars>>

CacheInit ==
  /\ PipeInit
  /\ cache = {}
  /\ dbNow = 0
  /\ skew \in Skews
  /\ got = NoGet
  /\ lastSet = {}
  /\ CursorIdle
  /\ AuxInit

CacheNext ==
  \/ \E k \in CacheKeys, v \in CacheValues, ttl \in Ttls : CacheSet(k, v, ttl)
  \/ \E k \in CacheKeys : CacheGet(k)
  \/ \E k \in CacheKeys : CacheDel(k)
  \/ \E prefix \in CachePrefixes : CacheDelByPrefix(prefix)
  \/ Sweep
  \/ Tick

SpecCache == CacheInit /\ [][CacheNext]_vars

\* ================================================================ cursors
\* A non-negative integer offset is its decimal digits (most significant first,
\* no leading zero); a string is the sequence of its characters.

MaxOffset == 130     \* offsets 0..MaxOffset are tried, and three large ones

\* The printable ASCII characters, code 32 first (code 96 by its name).
Ascii ==
  <<" ", "!", "\"", "#", "$", "%", "&", "'", "(", ")", "*", "+", ",", "-", ".", "/",
    "0", "1", "2", "3", "4", "5", "6", "7", "8", "9", ":", ";", "<", "=", ">", "?",
    "@", "A", "B", "C", "D", "E", "F", "G", "H", "I", "J", "K", "L", "M", "N", "O",
    "P", "Q", "R", "S", "T", "U", "V", "W", "X", "Y", "Z", "[", "\\", "]", "^", "_",
    "backquote", "a", "b", "c", "d", "e", "f", "g", "h", "i", "j", "k", "l", "m", "n", "o",
    "p", "q", "r", "s", "t", "u", "v", "w", "x", "y", "z", "{", "|", "}", "~">>

CharCode(ch) == 31 + (CHOOSE i \in DOMAIN Ascii : Ascii[i] = ch)
CharOf(code) == IF code >= 32 /\ code <= 126 THEN Ascii[code - 31] ELSE "?"

\* Buffer.from(s, "utf8") and buf.toString("utf8"), on ASCII text
Utf8Bytes(s) == [i \in DOMAIN s |-> CharCode(s[i])]
Utf8Text(bytes) == [i \in DOMAIN bytes |-> CharOf(bytes[i])]

Base64UrlAlphabet ==
  <<"A", "B", "C", "D", "E", "F", "G", "H", "I", "J", "K", "L", "M", "N", "O", "P",
    "Q", "R", "S", "T", "U", "V", "W", "X", "Y", "Z", "a", "b", "c", "d", "e", "f",
    "g", "h", "i", "j", "k", "l", "m", "n", "o", "p", "q", "r", "s", "t", "u", "v",
    "w", "x", "y", "z", "0", "1", "2", "3", "4", "5", "6", "7", "8", "9", "-", "_">>

Sextet(v) == Base64UrlAlphabet[v + 1]
IsBase64Char(ch) == \E i \in DOMAIN Base64UrlAlphabet : Base64UrlAlphabet[i] = ch
SextetValue(ch) == (CHOOSE i \in DOMAIN Base64UrlAlphabet : Base64UrlAlphabet[i] = ch) - 1

\* buf.toString("base64url"): three bytes give four characters, no padding
RECURSIVE Base64UrlEncode(_)
Base64UrlEncode(b) ==
  IF Len(b) = 0 THEN <<>>
  ELSE IF Len(b) = 1
    THEN <<Sextet(b[1] \div 4), Sextet((b[1] % 4) * 16)>>
  ELSE IF Len(b) = 2
    THEN <<Sextet(b[1] \div 4), Sextet((b[1] % 4) * 16 + b[2] \div 16),
           Sextet((b[2] % 16) * 4)>>
  ELSE <<Sextet(b[1] \div 4), Sextet((b[1] % 4) * 16 + b[2] \div 16),
         Sextet((b[2] % 16) * 4 + b[3] \div 64), Sextet(b[3] % 64)>>
         \o Base64UrlEncode(SubSeq(b, 4, Len(b)))

RECURSIVE Base64Groups(_)
Base64Groups(v) ==
  IF Len(v) < 2 THEN <<>>
  ELSE IF Len(v) = 2
    THEN <<v[1] * 4 + v[2] \div 16>>
  ELSE IF Len(v) = 3
    THEN <<v[1] * 4 + v[2] \div 16, (v[2] % 16) * 16 + v[3] \div 4>>
  ELSE <<v[1] * 4 + v[2] \div 16, (v[2] % 16) * 16 + v[3] \div 4,
         (v[3] % 4) * 64 + v[4]>>
         \o Base64Groups(SubSeq(v, 5, Len(v)))

\* Buffer.from(c, "base64url"): characters outside the alphabet are skipped
Base64UrlDecode(c) ==
  LET valid == SelectSeq(c, IsBase64Char)
  IN Base64Groups([i \in DOMAIN valid |-> SextetValue(valid[i])])

RECURSIVE StripTrailingZeros(_)
StripTrailingZeros(d) ==
  IF Len(d) > 1 /\ d[Len(d)] = "0" THEN StripTrailingZeros(SubSeq(d, 1, Len(d) - 1)) ELSE d

RECURSIVE StripLeadingZeros(_)
StripLeadingZeros(d) ==
  IF Len(d) > 1 /\ Head(d) = "0" THEN StripLeadingZeros(Tail(d)) ELSE d

\* String(n) of a non-negative integer: plain decimal digits below 10^21,
\* exponent notation ("1e+21", "1.5e+21") from 10^21 on.
NumberToString(d) ==
  IF Len(d) <= 21 THEN d
  ELSE LET m == StripTrailingZeros(d)
       IN (IF Len(m) = 1 THEN m ELSE <<Head(m), ".">> \o Tail(m))
            \o <<"e", "+">> \o Decimal(Len(d) - 1)

IsDigit(ch) == ch \in {"0", "1", "2", "3", "4", "5", "6", "7", "8", "9"}

RECURSIVE DigitPrefix(_)
DigitPrefix(s) ==
  IF s # <<>> /\ IsDigit(Head(s)) THEN <<Head(s)>> \o DigitPrefix(Tail(s)) ELSE <<>>

RECURSIVE TrimLeft(_)
TrimLeft(s) == IF s # <<>> /\ Head(s) = " " THEN TrimLeft(Tail(s)) ELSE s

NaN == [nan |-> TRUE, negative |-> FALSE, digits |-> <<>>]

\* parseInt(s, 10): leading blanks, an optional sign, then the longest run of
\* digits; NaN when there is none.
parseInt(s) ==
  LET t == TrimLeft(s)
      signed == t # <<>> /\ Head(t) \in {"+", "-"}
      body == DigitPrefix(IF signed THEN Tail(t) ELSE t)
  IN IF body = <<>> THEN NaN
     ELSE [nan |-> FALSE,
           negative |-> signed /\ Head(t) = "-",
           digits |-> StripLeadingZeros(body)]

Zero == <<"0">>

encodeCursor(n) == Base64UrlEncode(Utf8Bytes(NumberToString(n)))

\* `Number.isFinite(n) && n >= 0 ? n : 0`, and 0 for a missing cursor
decodeCursor(c) ==
  IF c = <<>> THEN Zero
  ELSE LET n == parseInt(Utf8Text(Base64UrlDecode(c)))
       IN IF ~n.nan /\ (~n.negative \/ n.digits = Zero) THEN n.digits ELSE Zero

RECURSIVE Zeros(_)
Zeros(k) == IF k = 0 THEN <<>> ELSE <<"0">> \o Zeros(k - 1)

\* 10^20, 10^21 and 10^22
LargeOffsets == {<<"1">> \o Zeros(20), <<"1">> \o Zeros(21), <<"1">> \o Zeros(22)}

CursorOffsets == {Decimal(n) : n \in 0..MaxOffset} \cup LargeOffsets

CursorStart ==
  /\ cursorPc = "idle"
  /\ \E n \in CursorOffsets :
       /\ cursorN' = n
       /\ cursorPc' = "given"
  /\ UNCHANGED <<pipeVars, cacheVars, auxVars, cursorStr, cursorOut>>

CursorEncode ==
  /\ cursorPc = "given"
  /\ cursorStr' = encodeCursor(cursorN)
  /\ cursorPc' = "encoded"
  /\ UNCHANGED <<pipeVars, cacheVars, auxVars, cursorN, cursorOut>>

CursorDecode ==
  /\ cursorPc = "encoded"
  /\ cursorOut' = decodeCursor(cursorStr)
  /\ cursorPc' = "decoded"
  /\ UNCHANGED <<pipeVars, cacheVars, auxVars, cursorN, cursorStr>>

\* Texts a client may wrap into a cursor of its own making.
ForgedTexts ==
  { <<"1", "2", "a", "b", "c">>,        \* digits followed by other characters
    <<"-", "5">>,                       \* a negative number
    <<"a", "b", "c">>,                  \* no digits at all
    <<"0", "0", "7">>,                  \* leading zeros
    <<" ", "7">>,                       \* a leading blank
    <<"1", ".", "5">>,                  \* a fraction
    <<"+", "3">>,                       \* an explicit sign
    <<"4", "2">> }                      \* the text of a well-formed cursor

\* The cursor query parameter as received: absent (the empty string), a forged
\* text in base64url, or characters outside the base64url alphabet.
ReceivedCursors ==
  {<<>>, <<"!", "!", "!">>, <<"N", "D", "I", "=">>}
    \cup {Base64UrlEncode(Utf8Bytes(t)) : t \in ForgedTexts}

\* A canonical decimal numeral of at most 21 digits: what String(n) gives for
\* an integer 0 <= n < 10^21.
IsDecimalText(t) ==
  /\ Len(t) >= 1 /\ Len(t) <= 21
  /\ \A i \in DOMAIN t : IsDigit(t[i])
  /\ (Len(t) > 1 => t[1] # "0")

\* An exponent numeral: what String(n) gives for an integer n >= 10^21.
IsExponentText(t) ==
  \E k \in DOMAIN t :
    /\ t[k] = "e" /\ k >= 2 /\ Len(t) >= k + 3 /\ t[k + 1] = "+"
    /\ IsDigit(t[1]) /\ t[1] # "0"
    /\ (k > 2 => /\ k >= 4 /\ t[2] = "." /\ t[k - 1] # "0"
                 /\ \A i \in 3..(k - 1) : IsDigit(t[i]))
    /\ \A i \in (k + 2)..Len(t) : IsDigit(t[i])
    /\ t[k + 2] # "0"
    /\ (Len(t) = k + 3 => (t[k + 2] # "1" /\ (t[k + 2] = "2" => t[k + 3] # "0")))

\* c is what encodeCursor returns for some non-negative integer.
IsEncodedOffset(c) ==
  LET t == Utf8Text(Base64UrlDecode(c))
  IN /\ IsDecimalText(t) \/ IsExponentText(t)
     /\ Base64UrlEncode(Utf8Bytes(t)) = c

\* A request arrives with a cursor the server did not necessarily issue.
CursorReceive ==
  /\ cursorPc = "idle"
  /\ \E c \in ReceivedCursors :
       /\ cursorStr' = c
       /\ cursorPc' = "received"
  /\ UNCHANGED <<pipeVars, cacheVars, auxVars, cursorN, cursorOut>>

CursorDecodeReceived ==
  /\ cursorPc = "received"
  /\ cursorOut' = decodeCursor(cursorStr)
  /\ cursorPc' = "answered"
  /\ UNCHANGED <<pipeVars, cacheVars, auxVars, cursorN, cursorStr>>

CursorNext ==
  \/ CursorStart \/ CursorEncode \/ CursorDecode
  \/ CursorReceive \/ CursorDecodeReceived

SpecCursor == Init /\ [][CursorNext]_vars

\* ============================================================ controller
\* POST /submissions: validation in the controller, then the service.

RECURSIVE TrimRight(_)
TrimRight(s) ==
  IF s # <<>> /\ s[Len(s)] = " " THEN TrimRight(SubSeq(s, 1, Len(s) - 1)) ELSE s

\* Mutant: the field is taken as received.
Trimmed_AsReceived(raw) == IF raw = Missing THEN <<>> ELSE raw

\* `String(req.body.x || "").trim()`
Trimmed(raw) == IF raw = Missing THEN <<>> ELSE TrimRight(TrimLeft(raw))

\* Body fields as received: missing or a string of characters.
RawIds == {Missing, <<>>, <<" ">>, <<"a", "1">>, <<" ", "a", "1", " ">>}
RawStudents == {Missing, <<" ", " ">>, <<"s", "1">>}

\* req.file of multer (buffer and mimetype), when a file part was uploaded
Files ==
  {NoFile, [present |-> TRUE, buffer |-> [size |-> 5, tag |-> 0], mimetype |-> "image/jpeg"]}

\* req.body.editorText, by the bytes Buffer.from(editorText, "utf8") gives
EditorTexts == {NoText, [present |-> TRUE, buffer |-> [size |-> 5, tag |-> 0]]}

Requests ==
  {req \in [assignmentId : RawIds, studentId : RawStudents, grade : Grades,
            file : Files, editorText : EditorTexts] :
     \* one field at most departs from the plain request
     Cardinality({f \in {"a", "s", "c"} :
        \/ f = "a" /\ req.assignmentId # <<"a", "1">>
        \/ f = "s" /\ req.studentId # <<"s", "1">>
        \/ f = "c" /\ req.file.present = req.editorText.present}) <= 1}

\* The opts the controller passes to the service.
OptsOf(req) ==
  [assignmentId |-> Trimmed(req.assignmentId),
   studentId |-> Trimmed(req.studentId),
   grade |-> req.grade,
   buf |-> IF req.file.present THEN req.file.buffer ELSE req.editorText.buffer,
   mime |-> IF req.file.present THEN req.file.mimetype ELSE "text/plain"]

postSubmission(p) ==
  /\ pc[p] = "idle"
  /\ \A q \in Procs : q < p => pc[q] # "idle"
  /\ \E req \in Requests :
       /\ request' = [request EXCEPT ![p] = req]
       /\ IF Trimmed(req.assignmentId) = <<>> \/ Trimmed(req.studentId) = <<>>
            THEN /\ pc' = [pc EXCEPT ![p] = "done"]
                 /\ result' = [result EXCEPT ![p] = Thrown(400, "BadRequest", "ids")]
                 /\ UNCHANGED <<call, prior>>
          ELSE IF ~req.file.present /\ ~req.editorText.present
            THEN /\ pc' = [pc EXCEPT ![p] = "done"]
                 /\ result' = [result EXCEPT ![p] = Thrown(400, "BadRequest", "content")]
                 /\ UNCHANGED <<call, prior>>
          ELSE Enter(p, OptsOf(req))
  /\ UNCHANGED <<loc, submissions, events, artifacts, cacheVars, cursorVars, listVars,
                 storeVars, sweeperVars, readVars>>

PostNext ==
  \/ \E p \in Procs :
       \/ postSubmission(p)
       \/ SaveOriginal(p)
       \/ Insert(p)
       \/ Requery(p)
       \/ EmitCreated(p)
       \/ Invalidate(p)
       \/ FollowUp(p)
  \/ CoursesList

SpecPost == Init /\ [][PostNext]_vars

\* GET /submissions: one page of the table, newest first.

MaxRows == 4         \* rows the table grows to while pages are read

\* The number a string of decimal digits denotes.
RECURSIVE Value(_)
Value(d) ==
  IF d = <<>> THEN 0
  ELSE 10 * Value(SubSeq(d, 1, Len(d) - 1))
         + (CHOOSE k \in 0..9 : DigitChars[k + 1] = d[Len(d)])

\* `parseInt(String(req.query.pageSize ?? "20"), 10) || 20`, then
\* `Math.min(.., 200)`
PageSizeOf(raw) ==
  LET n == parseInt(IF raw = Missing THEN <<"2", "0">> ELSE raw)
      v == IF n.nan THEN 0
           ELSE IF n.negative THEN 0 - Value(n.digits) ELSE Value(n.digits)
      orDefault == IF n.nan \/ v = 0 THEN 20 ELSE v
  IN IF orDefault < 200 THEN orDefault ELSE 200

RawPageSizes ==
  {Missing, <<"0">>, <<"-", "5">>, <<"a", "b", "c">>, <<"1">>, <<"2">>,
   <<"2", "0", "0">>, <<"3", "0", "0">>}

ListCursors == {<<>>} \cup {encodeCursor(Decimal(k)) : k \in 0..MaxRows}

\* A createSubmission elsewhere stores one more row.
SeedRow ==
  /\ Cardinality(submissions) < MaxRows
  /\ submissions' = submissions \cup
       {[id |-> Cardinality(submissions) + 1,
         assignmentId |-> "a1", studentId |-> "s1", mime |-> "text/plain",
         size |-> 5, sha256 |-> <<"sha256", 5, Cardinality(submissions) + 1>>,
         storagePath |-> <<>>, status |-> "received",
         extractionStatus |-> "parsed", ocrRequired |-> FALSE,
         extractedText |-> "[stub]",
         createdAt |-> Cardinality(submissions) + 1]}
  /\ UNCHANGED <<pc, call, loc, result, prior, events, artifacts,
                 cacheVars, cursorVars, auxVars>>

\* The handler up to its await: pageSize and offset from the query string.
listSubmissions ==
  /\ listPc = "idle"
  /\ \E ps \in RawPageSizes, c \in ListCursors :
       /\ listQuery' = [pageSize |-> ps, cursor |-> c]
       /\ listArgs' = [limit |-> PageSizeOf(ps), offset |-> Value(decodeCursor(c))]
  /\ listPc' = "query"
  /\ UNCHANGED <<pipeVars, cacheVars, cursorVars, postVars, storeVars, sweeperVars, readVars, listRes>>

\* ORDER BY created_at DESC LIMIT $1 OFFSET $2: how many rows come back
PageLength(total, limit, offset) ==
  IF total - offset <= 0 THEN 0
  ELSE IF total - offset < limit THEN total - offset ELSE limit

\* The query runs and the handler answers. A negative LIMIT is an error of the
\* database, which the handler does not catch.
ListRespond ==
  /\ listPc = "query"
  /\ IF listArgs.limit < 0
       THEN /\ listPc' = "failed"
            /\ UNCHANGED listRes
       ELSE LET total == Cardinality(submissions)
                items == PageLength(total, listArgs.limit, listArgs.offset)
            IN /\ listRes' =
                    [items |-> items,
                     header |-> IF items = listArgs.limit
                                  THEN encodeCursor(Decimal(listArgs.offset + listArgs.limit))
                                  ELSE <<>>,
                     total |-> total]
               /\ listPc' = "done"
  /\ UNCHANGED <<pipeVars, cacheVars, cursorVars, postVars, storeVars, sweeperVars, readVars, listQuery, listArgs>>

ListNext == SeedRow \/ listSubmissions \/ ListRespond

SpecList == Init /\ [][ListNext]_vars

\* ========================================================= artifact paths
\* saveOriginal of both storage providers, with paths as strings of characters.

\* s.split(sep)
RECURSIVE Split(_, _)
Split(str, sep) ==
  IF \A i \in DOMAIN str : str[i] # sep THEN <<str>>
  ELSE LET k == CHOOSE i \in DOMAIN str :
                  str[i] = sep /\ \A j \in 1..(i - 1) : str[j] # sep
       IN <<SubSeq(str, 1, k - 1)>> \o Split(SubSeq(str, k + 1, Len(str)), sep)

\* segments.join("/")
RECURSIVE JoinSegs(_)
JoinSegs(segs) ==
  IF segs = <<>> THEN <<>>
  ELSE IF Len(segs) = 1 THEN segs[1]
  ELSE segs[1] \o <<"/">> \o JoinSegs(Tail(segs))

DotDot == <<".", ".">>

\* Normalisation of the segments of a path: "" and "." are dropped, ".." takes
\* back the segment before it; at the start of a relative path ".." stays, at
\* the root of an absolute one it is dropped.
RECURSIVE NormalizeSegs(_, _, _)
NormalizeSegs(done, rest, absolute) ==
  IF rest = <<>> THEN done
  ELSE LET seg == Head(rest)
       IN IF seg = <<>> \/ seg = <<".">>
            THEN NormalizeSegs(done, Tail(rest), absolute)
          ELSE IF seg = DotDot
            THEN IF done # <<>> /\ done[Len(done)] # DotDot
                   THEN NormalizeSegs(SubSeq(done, 1, Len(done) - 1), Tail(rest), absolute)
                 ELSE IF absolute THEN NormalizeSegs(done, Tail(rest), absolute)
                 ELSE NormalizeSegs(Append(done, seg), Tail(rest), absolute)
          ELSE NormalizeSegs(Append(done, seg), Tail(rest), absolute)

\* path.posix.join(...parts) of relative parts: empty parts are skipped, the
\* rest is joined with "/" and normalised ("." when nothing is left).
PosixJoin(parts) ==
  LET joined == JoinSegs(SelectSeq(parts, LAMBDA x : x # <<>>))
      segs == NormalizeSegs(<<>>, Split(joined, "/"), FALSE)
  IN IF segs = <<>> THEN <<".">> ELSE JoinSegs(segs)

\* p.replace(/\\/g, "/")
toPosix(str) == [i \in DOMAIN str |-> IF str[i] = "\\" THEN "/" ELSE str[i]]

\* path.resolve(process.cwd(), "artifacts"), as segments below "/"
Root == << <<"a", "p", "p">>, <<"a", "r", "t", "i", "f", "a", "c", "t", "s">> >>

SafeJoinError == "Path traversal detected"

\* safeJoin(root, ...parts): the resolved segments, or the error when they do
\* not lie strictly below the root.
safeJoin(root, parts) ==
  LET resolved == NormalizeSegs(<<>>, root \o parts, TRUE)
  IN IF Len(resolved) > Len(root) /\ SubSeq(resolved, 1, Len(root)) = root
       THEN [ok |-> TRUE, path |-> resolved]
       ELSE [ok |-> FALSE, path |-> <<>>]

IsAlnum(ch) ==
  LET c == CharCode(ch)
  IN (c >= 48 /\ c <= 57) \/ (c >= 65 /\ c <= 90) \/ (c >= 97 /\ c <= 122)

\* /^\.[a-z0-9]+$/i
ExtPattern(ext) ==
  /\ Len(ext) >= 2
  /\ ext[1] = "."
  /\ \A i \in 2..Len(ext) : IsAlnum(ext[i])

\* ext.toLowerCase()
ToLowerCase(str) ==
  [i \in DOMAIN str |->
     LET c == CharCode(str[i])
     IN IF c >= 65 /\ c <= 90 THEN CharOf(c + 32) ELSE str[i]]

\* `args.ext.startsWith(".") ? args.ext : "." + args.ext`
DottedExt(ext) == IF ext # <<>> /\ ext[1] = "." THEN ext ELSE <<".">> \o ext

ClassDir == <<"c", "l", "a", "s", "s">>
Original == <<"o", "r", "i", "g", "i", "n", "a", "l">>

\* LocalFsStorage.saveOriginal up to its first await: the extension check, the
\* storagePath and the two guarded disk paths.
LocalPlan(args) ==
  LET ext == DottedExt(args.ext)
      relDirPosix == toPosix(PosixJoin(<<IF args.grade # <<>> THEN args.grade ELSE ClassDir,
                                         args.assignmentId, args.submissionId>>))
      fileName == Original \o ToLowerCase(ext)
      storagePath == toPosix(PosixJoin(<<relDirPosix, fileName>>))
      segs == Split(storagePath, "/")
      absDir == safeJoin(Root, SubSeq(segs, 1, Len(segs) - 1))
      absolutePath == safeJoin(Root, segs)
  IN IF ~ExtPattern(ext)
       THEN [kind |-> "error", storagePath |-> <<>>, location |-> <<>>,
             error |-> "Invalid file extension"]
     ELSE IF ~absDir.ok \/ ~absolutePath.ok
       THEN [kind |-> "error", storagePath |-> <<>>, location |-> <<>>,
             error |-> SafeJoinError]
     ELSE [kind |-> "ok", storagePath |-> storagePath,
           location |-> JoinSegs(absolutePath.path), error |-> Null]

\* AzureBlobStorage.saveOriginal up to its first await: the blob name.
AzurePlan(args) ==
  LET ext == DottedExt(args.ext)
      storagePath == PosixJoin(<<IF args.grade # <<>> THEN args.grade ELSE ClassDir,
                                 args.assignmentId, args.submissionId,
                                 Original \o ToLowerCase(ext)>>)
  IN [kind |-> "ok", storagePath |-> storagePath, location |-> storagePath,
      error |-> Null]

GradeHints ==
  { <<>>,
    <<"9">>,
    <<".", ".">>,
    <<".", ".", "/", "x">>,
    <<"a", "/", ".", ".", "/", "b">>,
    <<".", ".", "/", "a", "r", "t", "i", "f", "a", "c", "t", "s">>,
    <<"a", "\\", ".", ".", "\\", "b">> }

Extensions ==
  { <<".", "t", "x", "t">>,
    <<"t", "x", "t">>,
    <<".", "P", "D", "F">>,
    <<".", "t", "x", "t", "/", ".", ".", "/", ".", ".", "/", "x">>,
    <<".", ".", "/", "x">>,
    <<>> }

SaveArgs ==
  [grade : GradeHints, assignmentId : {<<"a", "1">>}, submissionId : {<<"s", "1">>},
   ext : Extensions]

\* The provider is chosen once, from the environment.
ChooseProvider ==
  /\ savePc = "idle"
  /\ backend' \in {"local", "azure"}
  /\ savePc' = "ready"
  /\ UNCHANGED <<pipeVars, cacheVars, cursorVars, postVars, listVars, sweeperVars, readVars, saveArgs, saveRes>>

\* saveOriginal is called: it throws, or goes on to write.
SaveOriginalCall ==
  /\ savePc = "ready"
  /\ \E args \in SaveArgs :
       LET plan == IF backend = "local" THEN LocalPlan(args) ELSE AzurePlan(args)
       IN /\ saveArgs' = args
          /\ saveRes' = [kind |-> plan.kind, storagePath |-> plan.storagePath,
                         error |-> plan.error]
          /\ savePc' = IF plan.kind = "error" THEN "done" ELSE "write"
  /\ UNCHANGED <<pipeVars, cacheVars, cursorVars, postVars, listVars, sweeperVars, readVars, backend>>

\* fs.promises.writeFile(absolutePath, buf) / blob.uploadData(buf)
SaveOriginalWrite ==
  /\ savePc = "write"
  /\ LET plan == IF backend = "local" THEN LocalPlan(saveArgs) ELSE AzurePlan(saveArgs)
     IN artifacts' = WriteFile(artifacts, plan.location, [size |-> 5, tag |-> 0])
  /\ savePc' = "done"
  /\ UNCHANGED <<pc, call, loc, result, prior, submissions, events,
                 cacheVars, cursorVars, postVars, listVars, sweeperVars, readVars, backend, saveArgs,
                 saveRes>>

StoreNext == ChooseProvider \/ SaveOriginalCall \/ SaveOriginalWrite

SpecStore == Init /\ [][StoreNext]_vars

\* ======================================================= cache sweeper
\* startCacheSweeper: a timer whose callback awaits cacheSweepExpired inside a
\* try/catch. Callbacks of successive ticks may overlap.

MaxSweeps == 3       \* interval ticks in one behaviour

startCacheSweeper ==
  /\ ~sweeper.started
  /\ \E enabled \in BOOLEAN :       \* ENABLE_CACHE_SWEEPER
       sweeper' = [sweeper EXCEPT !.started = TRUE, !.timer = enabled]
  /\ UNCHANGED <<pipeVars, cacheVars, cursorVars, postVars, listVars, storeVars, readVars>>

\* The interval elapses: the callback starts and awaits the DELETE.
IntervalTick ==
  /\ sweeper.timer
  /\ sweeper.runs + sweeper.running < MaxSweeps
  /\ sweeper' = [sweeper EXCEPT
                   !.running = @ + 1,
                   !.ticksAfterError = IF sweeper.errors > 0 THEN @ + 1 ELSE @]
  /\ UNCHANGED <<pipeVars, cacheVars, cursorVars, postVars, listVars, storeVars, readVars>>

\* The DELETE succeeds.
SweepDone ==
  /\ sweeper.running > 0
  /\ cache' = cacheSweepExpired(cache, dbNow)
  /\ sweeper' = [sweeper EXCEPT !.running = @ - 1, !.runs = @ + 1]
  /\ UNCHANGED <<pipeVars, dbNow, skew, got, lastSet, cursorVars, postVars, listVars,
                 storeVars, readVars>>

\* Mutant: the error leaves the callback: the rejection is unhandled and the
\* process, with its timer, ends.
Caught_Rethrown(s) ==
  [s EXCEPT !.running = 0, !.runs = @ + 1, !.errors = @ + 1,
            !.crashed = TRUE, !.timer = FALSE]

\* The catch block: a structured error log, nothing else.
Caught(s) == [s EXCEPT !.running = @ - 1, !.runs = @ + 1, !.errors = @ + 1]

\* cacheSweepExpired throws (the database is unreachable, the query fails).
SweepThrows ==
  /\ sweeper.running > 0
  /\ sweeper' = Caught(sweeper)
  /\ UNCHANGED <<pipeVars, cacheVars, cursorVars, postVars, listVars, storeVars, readVars>>

SweeperNext ==
  \/ startCacheSweeper
  \/ IntervalTick
  \/ SweepDone
  \/ SweepThrows
  \/ \E k \in CacheKeys, ttl \in Ttls : CacheSet(k, "v1", ttl)
  \/ Tick

SpecSweeper == Init /\ [][SweeperNext]_vars

\* ======================================================= storage failures
\* The pipeline behind the controller, with an artifact store that can fail.

StorageError == "storage_error"

\* Mutant: the failure is swallowed and the call goes on to report success.
Propagated_Swallowed(err) == Ok(0, "parsed", FALSE, "storage")

\* An error thrown by an awaited call leaves createSubmission as it is.
Propagated(err) == Thrown(500, err, "storage")

\* What a failed write leaves at the path: the bytes cut short.
CutShort(buf) == [size |-> 0, tag |-> buf.tag]

\* storage.saveOriginal rejects (disk full, permissions, network): the error
\* leaves createSubmission; the file is absent or incomplete.
SaveOriginalFails(p) ==
  /\ pc[p] = "save"
  /\ \E id \in CandidateIds, partial \in BOOLEAN :
       LET path == StoragePath(call[p].grade, call[p].assignmentId, id,
                               pickExt(call[p].mime))
       IN artifacts' = IF partial
                         THEN WriteFile(artifacts, path, CutShort(call[p].buf))
                         ELSE artifacts
  /\ pc' = [pc EXCEPT ![p] = "done"]
  /\ result' = [result EXCEPT ![p] = Propagated(StorageError)]
  /\ UNCHANGED <<call, loc, prior, submissions, events, cacheVars, cursorVars, auxVars>>

FaultsNext ==
  \/ PostNext
  \/ \E p \in Procs : SaveOriginalFails(p)

SpecFaults == Init /\ [][FaultsNext]_vars

\* ========================================================= the core's reads
\* createSubmission beside the three reads of the service.

\* The requests of this part: one body as an image for one assignment and as
\* text for another.
CoreInputs ==
  {in \in Inputs : in.buf.size = 5 /\ (in.assignmentId = "a1" => in.mime = "image/jpeg")}

CoreCall(p) ==
  /\ pc[p] = "idle"
  /\ \A q \in Procs : q < p => pc[q] # "idle"
  /\ \E in \in CoreInputs : Enter(p, in)
  /\ UNCHANGED <<loc, submissions, events, artifacts, cacheVars, cursorVars, auxVars>>

\* The ids a reader asks for: every id the generator can produce and one that
\* no submission has.
ReadIds == Ids \cup {0}

\* The limit and offset the list is read with.
Windows == {[limit |-> 1, offset |-> 0], [limit |-> 1, offset |-> 1],
            [limit |-> 200, offset |-> 0]}

\* ORDER BY created_at DESC LIMIT $1 OFFSET $2
Window(table, limit, offset) ==
  {r \in table :
     LET newer == Cardinality({q \in table : q.createdAt > r.createdAt})
     IN offset <= newer /\ newer < offset + limit}

\* SubmissionsService.listSubmissions(limit, offset)
ServiceListSubmissions ==
  /\ \E w \in Windows :
       readRes' = [op |-> "listSubmissions",
                   rows |-> Window(submissions, w.limit, w.offset), locator |-> <<>>]
  /\ UNCHANGED <<pipeVars, cacheVars, cursorVars, postVars, listVars, storeVars, sweeperVars>>

\* SELECT ... FROM app.submissions WHERE submission_id = $1
getSubmission(id) ==
  /\ readRes' = [op |-> "getSubmission", rows |-> {r \in submissions : r.id = id},
                 locator |-> <<>>]
  /\ UNCHANGED <<pipeVars, cacheVars, cursorVars, postVars, listVars, storeVars, sweeperVars>>

\* SELECT storage_path ..., then storage.getReadLocator(row.storage_path)
getArtifactLocator(id) ==
  /\ LET hit == {r \in submissions : r.id = id}
     IN readRes' = [op |-> "getArtifactLocator", rows |-> {},
                    locator |-> IF hit = {} THEN <<>>
                                ELSE (CHOOSE r \in hit : TRUE).storagePath]
  /\ UNCHANGED <<pipeVars, cacheVars, cursorVars, postVars, listVars, storeVars, sweeperVars>>

CoreNext ==
  \/ \E p \in Procs :
       \/ CoreCall(p)
       \/ SaveOriginal(p)
       \/ Insert(p)
       \/ Requery(p)
       \/ EmitCreated(p)
       \/ Invalidate(p)
       \/ FollowUp(p)
  \/ ServiceListSubmissions
  \/ \E id \in ReadIds : getSubmission(id)
  \/ \E id \in ReadIds : getArtifactLocator(id)

SpecCore == Init /\ [][CoreNext]_vars

\* ====================================================== database failures
\* Any awaited db.query can reject (connection lost, timeout); nothing in
\* createSubmission catches it except the 23505 branch of the insert, so the
\* error leaves the call. The statement may or may not have taken effect.

DbError == "db_error"

\* The pre-check query rejects.
PrecheckFails(p) ==
  /\ pc[p] = "idle"
  /\ \A q \in Procs : q < p => pc[q] # "idle"
  /\ \E in \in CoreInputs :
       /\ ~TooLarge(in.buf)
       /\ call' = [call EXCEPT ![p] = in]
       /\ prior' = [prior EXCEPT ![p] = {q \in Procs : Done(q)}]
  /\ pc' = [pc EXCEPT ![p] = "done"]
  /\ result' = [result EXCEPT ![p] = Thrown(500, DbError, "precheck")]
  /\ UNCHANGED <<loc, submissions, events, artifacts, cacheVars, cursorVars, auxVars>>

\* The insert rejects with an error other than 23505; the row may have been
\* stored all the same.
InsertFails(p) ==
  /\ pc[p] = "insert"
  /\ \E applied \in BOOLEAN :
       submissions' =
         IF applied /\ SizeCheckOk(NewRow(p)) /\ ~UniqueViolation(submissions, NewRow(p))
           THEN submissions \cup {NewRow(p)}
           ELSE submissions
  /\ pc' = [pc EXCEPT ![p] = "done"]
  /\ result' = [result EXCEPT ![p] = Thrown(500, DbError, "insert")]
  /\ UNCHANGED <<call, loc, prior, events, artifacts, cacheVars, cursorVars, auxVars>>

\* The re-query after a unique_violation rejects.
RequeryFails(p) ==
  /\ pc[p] = "requery"
  /\ pc' = [pc EXCEPT ![p] = "done"]
  /\ result' = [result EXCEPT ![p] = Thrown(500, DbError, "requery")]
  /\ UNCHANGED <<call, loc, prior, submissions, events, artifacts, cacheVars, cursorVars,
                 auxVars>>

\* The insert of the created event rejects.
EmitCreatedFails(p) ==
  /\ pc[p] = "created"
  /\ \E applied \in BOOLEAN :
       events' = IF applied
                   THEN Append(events, Event(loc[p].submissionId, "submission.created"))
                   ELSE events
  /\ pc' = [pc EXCEPT ![p] = "done"]
  /\ result' = [result EXCEPT ![p] = Thrown(500, DbError, "created")]
  /\ UNCHANGED <<call, loc, prior, submissions, artifacts, cacheVars, cursorVars, auxVars>>

\* The DELETE of cacheDelByPrefix rejects.
InvalidateFails(p) ==
  /\ pc[p] = "invalidate"
  /\ pc' = [pc EXCEPT ![p] = "done"]
  /\ result' = [result EXCEPT ![p] = Thrown(500, DbError, "invalidate")]
  /\ UNCHANGED <<call, loc, prior, submissions, events, artifacts, cacheVars, cursorVars,
                 auxVars>>

\* The insert of the follow-up event rejects.
FollowUpFails(p) ==
  /\ pc[p] = "followup"
  /\ \E applied \in BOOLEAN :
       events' =
         IF ~applied THEN events
         ELSE IF loc[p].extractionStatus = "parsed"
           THEN Append(events, Event(loc[p].submissionId, "submission.parsed"))
         ELSE IF loc[p].ocrRequired
           THEN Append(events, Event(loc[p].submissionId, "submission.ocr_pending"))
         ELSE events
  /\ pc' = [pc EXCEPT ![p] = "done"]
  /\ result' = [result EXCEPT ![p] = Thrown(500, DbError, "followup")]
  /\ UNCHANGED <<call, loc, prior, submissions, artifacts, cacheVars, cursorVars, auxVars>>

DbFaultsNext ==
  \/ \E p \in Procs :
       \/ CoreCall(p)
       \/ SaveOriginal(p)
       \/ Insert(p)
       \/ Requery(p)
       \/ EmitCreated(p)
       \/ Invalidate(p)
       \/ FollowUp(p)
       \/ PrecheckFails(p)
       \/ InsertFails(p)
       \/ RequeryFails(p)
       \/ EmitCreatedFails(p)
       \/ InvalidateFails(p)
       \/ FollowUpFails(p)
  \/ CoursesList

SpecDbFaults == Init /\ [][DbFaultsNext]_vars

\* ================================================================ claims

Started(p) == pc[p] # "idle"
AllDone == \A p \in Procs : Done(p)
Returned(p) == Done(p) /\ result[p].kind = "ok"
SameTriple(p, q) ==
  /\ call[p].assignmentId = call[q].assignmentId
  /\ call[p].studentId = call[q].studentId
  /\ call[p].buf = call[q].buf
ValidSize(p) == call[p].buf.size > 0 /\ call[p].buf.size <= 10485760
RowsFor(p) ==
  {r \in submissions : /\ r.assignmentId = call[p].assignmentId
                       /\ r.studentId = call[p].studentId
                       /\ r.sha256 = sha256(call[p].buf)}
RowOf(id) == {r \in submissions : r.id = id}
EventsOf(id, type) ==
  {i \in DOMAIN events : events[i].submissionId = id /\ events[i].eventType = type}
FollowUps == {"submission.parsed", "submission.ocr_pending"}
ReturnsRow(p, r) ==
  /\ result[p].kind = "ok"
  /\ result[p].status = "received"
  /\ result[p].submissionId = r.id
  /\ result[p].extractionStatus = r.extractionStatus
  /\ result[p].ocrRequired = r.ocrRequired

\* C1: once N calls with the same assignmentId, studentId and bytes have all
\* returned, under any interleaving of their steps, exactly one Submission row
\* holds that triple and every caller received that row's submissionId; and in
\* any state, with other traffic too, callers of one triple that received an id
\* received the same one, that of the single row of the triple.
C1_ConcurrentDedup ==
  /\ (AllDone /\ ValidSize(1) /\ \A p \in Procs : SameTriple(p, 1))
       => /\ Cardinality(submissions) = 1
          /\ Cardinality({r.storagePath : r \in submissions}) = 1
          /\ \A p \in Procs : \E r \in submissions : ReturnsRow(p, r)
  /\ \A p, q \in Procs :
       (Returned(p) /\ Returned(q) /\ SameTriple(p, q))
         => /\ result[p].submissionId = result[q].submissionId
            /\ Cardinality(RowsFor(p)) = 1
            /\ \E r \in RowsFor(p) : r.id = result[p].submissionId

\* Both callers passed the pre-check and tried to insert; one lost the race.
C1_Witness ==
  /\ AllDone
  /\ \A p \in Procs : SameTriple(p, 1) /\ result[p].path \in {"inserted", "race"}
  /\ \E p, q \in Procs : result[p].path = "inserted" /\ result[q].path = "race"

\* C2: a call made after an identical call (same assignmentId, studentId and
\* bytes) has returned a submissionId returns that same submissionId, and once
\* no call is in flight exactly one created event exists for that submission.
C2_SequentialIdempotent ==
  \A p, q \in Procs :
    (Done(q) /\ p \in prior[q] /\ SameTriple(p, q) /\ Returned(p))
      => /\ Returned(q)
         /\ result[q].submissionId = result[p].submissionId
         /\ AllDone =>
              Cardinality(EventsOf(result[p].submissionId, "submission.created")) = 1

\* The first call inserted the row, the second began after it had returned.
C2_Witness ==
  /\ AllDone
  /\ \E p, q \in Procs :
       /\ p \in prior[q] /\ SameTriple(p, q)
       /\ result[p].path = "inserted" /\ result[q].path = "precheck"
       /\ result[q].submissionId = result[p].submissionId

\* C3: no two Submission rows share (assignmentId, studentId, contentHash).
C3_TripleUnique ==
  \A r1, r2 \in submissions :
    (r1.assignmentId = r2.assignmentId /\ r1.studentId = r2.studentId
       /\ r1.sha256 = r2.sha256) => r1 = r2

\* A second insert of a triple that is already stored was attempted and refused.
C3_Witness ==
  \E p \in Procs : loc[p].conflict = "triplet" /\ Cardinality(RowsFor(p)) = 1

\* C4: whenever the insert fails with a uniqueness conflict (of the
\* triple index or of the primary key), the call returns a success result.
C4_AnyConflictRecovered ==
  \A p \in Procs : (Done(p) /\ loc[p].conflict # Null) => result[p].kind = "ok"

\* C5: a call that ends on a pre-check hit returns the id, extractionStatus and
\* ocrRequired of the triple's row and that step changes neither the artifact
\* store, nor the submissions table, nor the event log, nor the cache.
C5_PrecheckHitFrame ==
  [][\A p \in Procs :
       (pc[p] = "idle" /\ result'[p].path = "precheck")
         => /\ UNCHANGED <<artifacts, submissions, events, cache>>
            /\ \E r \in submissions :
                 /\ r.assignmentId = call'[p].assignmentId
                 /\ r.studentId = call'[p].studentId
                 /\ r.sha256 = sha256(call'[p].buf)
                 /\ result'[p].kind = "ok"
                 /\ result'[p].submissionId = r.id
                 /\ result'[p].extractionStatus = r.extractionStatus
                 /\ result'[p].ocrRequired = r.ocrRequired]_vars

\* A pre-check hit with a populated cache, on a row that needs OCR.
C5_Witness ==
  \E p \in Procs :
    /\ Done(p) /\ result[p].path = "precheck"
    /\ result[p].extractionStatus = "pending_ocr"
    /\ cache # {} /\ artifacts # {} /\ events # <<>>

\* C6: content of exactly 10,485,760 bytes is not rejected for its size, neither
\* by the size check nor by the table's size constraint; content of 10,485,761
\* bytes or more ends the call with the 413 too_large error in a step that
\* changes no store.
C6_SizeBoundary ==
  [][\A p \in Procs :
       /\ (pc[p] = "idle" /\ pc'[p] # "idle")
            => IF call'[p].buf.size >= 10485761
                 THEN /\ pc'[p] = "done"
                      /\ result'[p].kind = "error"
                      /\ result'[p].http = 413
                      /\ result'[p].code = "too_large"
                      /\ UNCHANGED <<artifacts, submissions, events, cache>>
                 ELSE result'[p].kind # "error"
       /\ (call'[p].buf.size = 10485760 /\ pc'[p] = "done")
            => result'[p].code \notin {"too_large", "23514"}]_vars

\* A row of exactly the maximum size is stored and an oversized call was refused.
C6_Witness ==
  /\ \E r \in submissions : r.size = 10485760
  /\ \E p \in Procs : Done(p) /\ call[p].buf.size = 10485761 /\ result[p].http = 413

\* C7: every parsed or ocr_pending event in the log is preceded by a created
\* event of the same submission.
C7_CreatedFirst ==
  \A i \in DOMAIN events :
    events[i].eventType \in FollowUps
      => \E j \in 1..(i - 1) :
           /\ events[j].submissionId = events[i].submissionId
           /\ events[j].eventType = "submission.created"

\* Two submissions whose events interleave, each with its follow-up.
C7_Witness ==
  /\ Len(events) = 4
  /\ events[1].eventType = "submission.created"
  /\ events[2].eventType = "submission.created"
  /\ events[3].eventType \in FollowUps
  /\ events[3].submissionId = events[2].submissionId

\* C8 as claimed: whatever was submitted before, a text/plain call returns
\* parsed / ocrRequired = false and an image/jpeg call returns pending_ocr /
\* ocrRequired = true with extractedText null, in the result and the stored row.
C8_ClassifiedByOwnMime ==
  \A p \in Procs :
    Returned(p) =>
      \A r \in RowOf(result[p].submissionId) :
        /\ call[p].mime = "text/plain"
             => /\ result[p].extractionStatus = "parsed" /\ ~result[p].ocrRequired
                /\ r.extractionStatus = "parsed" /\ ~r.ocrRequired
        /\ call[p].mime = "image/jpeg"
             => /\ result[p].extractionStatus = "pending_ocr" /\ result[p].ocrRequired
                /\ r.extractionStatus = "pending_ocr" /\ r.ocrRequired
                /\ r.extractedText = Null

\* C8 as amended: a call that inserts the row itself classifies by its own mime
\* type (text/plain: parsed, no OCR; image/jpeg: pending_ocr, OCR, no text), in
\* its result and in the row; a call deduplicated against an existing row
\* returns that row's classification, which follows the mime type stored in the
\* row.
C8_ClassifiedAtInsert ==
  /\ \A r \in submissions :
       /\ r.mime = "text/plain"
            => r.extractionStatus = "parsed" /\ ~r.ocrRequired /\ r.extractedText # Null
       /\ r.mime = "image/jpeg"
            => r.extractionStatus = "pending_ocr" /\ r.ocrRequired /\ r.extractedText = Null
  /\ \A p \in Procs :
       Returned(p) =>
         \E r \in RowOf(result[p].submissionId) :
           /\ ReturnsRow(p, r)
           /\ result[p].path = "inserted" => r.mime = call[p].mime

\* The same bytes were sent as an image and then as text: the second call got
\* the first one's classification.
C8_Witness ==
  \E p, q \in Procs :
    /\ Returned(p) /\ Returned(q) /\ SameTriple(p, q)
    /\ result[p].path = "inserted" /\ call[p].mime = "image/jpeg"
    /\ result[q].path # "inserted" /\ call[q].mime = "text/plain"
    /\ result[q].extractionStatus = "pending_ocr"

\* C9: an entry written by cacheSet(key, value, ttl) and not deleted
\* by a caller since is returned by cacheGet while less than ttl has elapsed on
\* the database clock, and is absent once more than ttl has elapsed on it,
\* whatever the offset between the two clocks.
C9_TtlOnStoreClock ==
  \A s \in lastSet :
    /\ dbNow - s.at < s.ttl => cacheGet(cache, s.key, dbNow) = s.value
    /\ dbNow - s.at > s.ttl => cacheGet(cache, s.key, dbNow) = Undefined

\* C10: decodeCursor(encodeCursor(n)) = n for every non-negative
\* integer n.
C10_RoundTrip == cursorPc = "decoded" => cursorOut = cursorN

\* C11: decodeCursor returns 0 for an absent cursor and for every cursor that
\* is not the encoding encodeCursor produces for some non-negative integer.
C11_MalformedIsZero ==
  (cursorPc = "answered" /\ ~IsEncodedOffset(cursorStr)) => cursorOut = Zero

\* A body field that is missing or holds only blanks.
MissingOrBlank(raw) == raw = Missing \/ \A i \in DOMAIN raw : raw[i] = " "

\* The requests C12 is about.
Invalid(req) ==
  \/ MissingOrBlank(req.assignmentId)
  \/ MissingOrBlank(req.studentId)
  \/ ~req.file.present /\ ~req.editorText.present

\* C12: a create request with a missing or blank assignmentId or studentId, or
\* with neither a file nor editorText, is answered with 400 BadRequest in the
\* step that receives it, and that step leaves the artifact store, the
\* submissions table, the event log and the cache as they were.
C12_BadRequestNoEffect ==
  [][\A p \in Procs :
       (pc[p] = "idle" /\ pc'[p] # "idle" /\ Invalid(request'[p]))
         => /\ pc'[p] = "done"
            /\ result'[p].kind = "error"
            /\ result'[p].http = 400
            /\ result'[p].code = "BadRequest"
            /\ UNCHANGED <<artifacts, submissions, events, cache>>]_vars

\* A request with a blank assignmentId was rejected while a submission was
\* stored and the cache held an entry.
C12_Witness ==
  \E p \in Procs :
    /\ Done(p) /\ request[p].assignmentId = <<" ">>
    /\ result[p].http = 400
    /\ submissions # {} /\ cache # {} /\ artifacts # {}

\* C13: the limit the list endpoint passes to the repository is within
\* [1, 200] for every value of the pageSize query parameter.
C13_LimitClamped ==
  listPc # "idle" => (listArgs.limit >= 1 /\ listArgs.limit <= 200)

\* C14: the endpoint sets X-Next-Cursor exactly when a submission lies beyond
\* offset + pageSize in the listing, and not when the returned page is the
\* last one, a completely full last page included.
C14_NextCursorIffMore ==
  listPc = "done"
    => ((listRes.header # <<>>) <=> (listRes.total > listArgs.offset + listArgs.limit))

\* The string has a ".." segment, with either separator.
HasTraversal(str) == \E i \in DOMAIN Split(toPosix(str), "/") : Split(toPosix(str), "/")[i] = DotDot

\* C15: saveOriginal fails and writes nothing whenever the extension or the
\* grade hint contains a path-traversal sequence.
C15_TraversalRejected ==
  (savePc # "idle" /\ savePc # "ready"
     /\ (HasTraversal(saveArgs.ext) \/ HasTraversal(saveArgs.grade)))
    => /\ savePc = "done"
       /\ saveRes.kind = "error"
       /\ artifacts = {}

\* key begins with the literal string prefix
BeginsWith(key, prefix) ==
  Len(key) >= Len(prefix) /\ SubSeq(key, 1, Len(prefix)) = prefix

\* C16: cacheDelByPrefix(prefix) removes exactly the entries whose key begins
\* with the literal string prefix, returns their number and leaves every other
\* entry unchanged, for every prefix, ones with '%' or '_' included.
C16_LiteralPrefixOnly ==
  [][\A prefix \in CachePrefixes :
       CacheDelByPrefix(prefix)
         => /\ cache' = {e \in cache : ~BeginsWith(e.key, prefix)}
            /\ cacheDelByPrefixCount(cache, prefix)
                 = Cardinality({e \in cache : BeginsWith(e.key, prefix)})]_vars

\* C17: a failing sweep never propagates out of the sweeper: after a run in
\* which cacheSweepExpired threw, the process is alive, the timer is still
\* scheduled, and the next interval tick can start a sweep.
C17_SweeperSurvivesErrors ==
  sweeper.errors > 0
    => /\ ~sweeper.crashed
       /\ sweeper.timer
       /\ (sweeper.runs + sweeper.running < MaxSweeps => ENABLED IntervalTick)

\* A tick after a failed run swept again, to completion, and removed an
\* expired entry.
C17_Witness ==
  /\ sweeper.errors = 1 /\ sweeper.ticksAfterError >= 1
  /\ sweeper.running = 0 /\ sweeper.runs >= 2
  /\ cache = {} /\ lastSet # {}

\* C18: every cache entry, in every reachable state, has expiresAt > createdAt,
\* whatever ttl the callers pass and whatever the offset between the clocks.
C18_ExpiresAfterCreated ==
  \A e \in cache : e.expiresAt > e.createdAt

\* C19: when saveOriginal fails during createSubmission, the call ends with
\* that error in the same step, takes no further step (no retry), and the step
\* inserts no row, appends no event and invalidates no cache entry.
C19_StorageFailurePropagates ==
  [][\A p \in Procs :
       /\ (pc[p] = "save" /\ pc'[p] = "done")
            => /\ result'[p].kind = "error"
               /\ result'[p].code = StorageError
               /\ UNCHANGED <<submissions, events, cache>>
       /\ (pc[p] = "done" /\ result[p].code = StorageError)
            => (pc'[p] = "done" /\ result'[p] = result[p]
                /\ (submissions' # submissions
                      => \A r \in submissions' \ submissions :
                           \E q \in Procs \ {p} : r.id = loc'[q].submissionId))]_vars

\* A call failed in the artifact store while the cache held an entry, and
\* afterwards the same content was stored by another call.
C19_Witness ==
  \E p, q \in Procs :
    /\ Done(p) /\ result[p].code = StorageError
    /\ cache # {}
    /\ Done(q) /\ result[q].path = "inserted" /\ SameTriple(p, q)

\* C20: a Submission row is only ever inserted by a call whose saveOriginal
\* has completed, with the storagePath that saveOriginal returned and with the
\* file present at that path; a call that reports success for a row it
\* inserted itself has that row, with that path, in the table.
C20_ArtifactBeforeRow ==
  [][/\ \A r \in submissions' \ submissions :
          \E p \in Procs :
            /\ pc[p] = "insert" /\ pc'[p] = "created"
            /\ r.id = loc[p].submissionId
            /\ r.storagePath = loc[p].storagePath
            /\ \E f \in artifacts : f.path = r.storagePath
     /\ \A p \in Procs :
          (result'[p].path = "inserted")
            => \E r \in submissions' :
                 /\ r.id = result'[p].submissionId
                 /\ r.storagePath = loc'[p].storagePath
                 /\ \E f \in artifacts' : f.path = r.storagePath]_vars

\* A call stored its bytes, inserted its row and reported success, while
\* another call had failed in the artifact store.
C20_Witness ==
  \E p, q \in Procs :
    /\ Done(p) /\ result[p].path = "inserted"
    /\ \E r \in submissions, f \in artifacts :
         r.id = result[p].submissionId /\ f.path = r.storagePath /\ f.buf = call[p].buf
    /\ Done(q) /\ result[q].code = StorageError

\* C21: every event in the log has a type of the current vocabulary (created,
\* updated, parsed, ocr_pending); the legacy type submission.received is never
\* appended by createSubmission.
C21_CurrentVocabulary ==
  \A i \in DOMAIN events :
    /\ events[i].eventType \in {"submission.created", "submission.updated",
                                "submission.parsed", "submission.ocr_pending"}
    /\ events[i].eventType # "submission.received"

\* Both branches of the follow-up were taken: a parsed and an ocr_pending
\* event follow the created events of two submissions.
C21_Witness ==
  /\ \E i \in DOMAIN events : events[i].eventType = "submission.parsed"
  /\ \E i \in DOMAIN events : events[i].eventType = "submission.ocr_pending"
  /\ Cardinality({i \in DOMAIN events : events[i].eventType = "submission.created"}) = 2

\* C22: Submission rows and event rows are append-only: no step of
\* createSubmission, listSubmissions, getSubmission or getArtifactLocator
\* removes a row or changes a field of it, so every row keeps status
\* received and the extractionStatus it was created with, and the event log
\* only grows at its end.
C22_AppendOnly ==
  [][/\ \A r \in submissions :
          /\ r \in submissions'
          /\ r.status = "received"
          /\ \A q \in submissions' : q.id = r.id => q = r
     /\ Len(events') >= Len(events)
     /\ SubSeq(events', 1, Len(events)) = events]_vars

\* Every call has ended, each stored submission has its two events, a later
\* identical call was answered from the stored row, and the list was read.
C22_Witness ==
  /\ AllDone
  /\ Cardinality(submissions) >= 1
  /\ Len(events) = 2 * Cardinality(submissions)
  /\ \E p \in Procs : result[p].path \in {"precheck", "race"}
  /\ readRes.op = "listSubmissions"
  /\ readRes.rows # {}

\* C23: a create request that carries both an uploaded file and an
\* editorText is not processed: it is answered with a 400 error and never
\* reaches the service.
C23_ExactlyOneSource ==
  \A p \in Procs :
    (Started(p) /\ request[p].file.present /\ request[p].editorText.present)
      => /\ Done(p)
         /\ result[p].kind = "error"
         /\ result[p].http = 400

\* C24: the step of createSubmission that invalidates the listing cache is
\* taken after the created event of the call's own row is in the log and
\* before any follow-up event of that row, and it leaves no cache entry under
\* courses:v1: behind; a call returns its own insert only from the step after
\* it, so no entry that existed when the insert succeeded outlives the call.
C24_InvalidatedBeforeReturn ==
  [][\A p \in Procs :
       /\ (pc[p] = "invalidate" /\ pc'[p] # "invalidate")
            => /\ pc'[p] = "followup"
               /\ \A e \in cache' : ~BeginsWith(e.key, CoursesPrefix)
               /\ \E r \in submissions : r.id = loc[p].submissionId
               /\ EventsOf(loc[p].submissionId, "submission.created") # {}
               /\ \A i \in DOMAIN events' :
                    events'[i].submissionId = loc[p].submissionId
                      => events'[i].eventType \notin FollowUps
       /\ (pc[p] # "followup" /\ pc'[p] = "followup") => pc[p] = "invalidate"
       /\ (result[p].path # "inserted" /\ result'[p].path = "inserted")
            => pc[p] = "followup"]_vars

\* One call has returned its own insert while a listing cached since then is
\* about to be invalidated by a second call that has inserted its row.
C24_Witness ==
  \E p, q \in Procs :
    /\ Done(p) /\ result[p].path = "inserted"
    /\ pc[q] = "invalidate"
    /\ \E e \in cache : BeginsWith(e.key, CoursesPrefix)

\* C25: a run of the sweeper, at any point between the sets, reads and deletes
\* of other callers, removes only entries whose expiresAt is at or before the
\* store's clock, so for every key cacheGet returns after the sweep what it
\* returned before it.
C25_SweepInvisibleToReads ==
  [][(cache' # cache /\ cache' \subseteq cache /\ UNCHANGED <<lastSet, dbNow>>)
       => /\ \A e \in cache \ cache' : e.expiresAt <= dbNow
          /\ \A k \in CacheKeys : cacheGet(cache', k, dbNow') = cacheGet(cache, k, dbNow)]_vars

\* The sweeper has removed an expired entry (its cacheSet is on record, its
\* row is gone) while another entry is still valid, and a read has returned a
\* value.
C25_Witness ==
  /\ \E s \in lastSet : \A e \in cache : e.key # s.key
  /\ \E e \in cache : e.expiresAt > dbNow
  /\ got.value # Undefined

\* The two outcomes of the classifier: OCR is required exactly when the status
\* is pending_ocr, and text is present exactly when the status is parsed.
Consistent(d) ==
  /\ d.extractionStatus \in {"parsed", "pending_ocr"}
  /\ d.ocrRequired <=> d.extractionStatus = "pending_ocr"
  /\ d.extractedText # Null <=> d.extractionStatus = "parsed"

\* Mime types the classifier does not know.
UnrecognizedMimes == {"application/zip", "image/gif", ""}

\* C26: every Submission row has ocrRequired true exactly when its
\* extractionStatus is pending_ocr and extractedText non-null exactly when it
\* is parsed; decideExtraction yields only these two combinations for every
\* mime type and buffer, and pending_ocr for a mime type it does not know.
C26_ClassifierConsistent ==
  /\ \A r \in submissions : Consistent(r)
  /\ \A buf \in Bufs :
       /\ \A mime \in Mimes \cup UnrecognizedMimes \cup
                        {"image/png",
                         "application/vnd.openxmlformats-officedocument.wordprocessingml.document"} :
            Consistent(decideExtraction(mime, buf))
       /\ \A mime \in UnrecognizedMimes :
            decideExtraction(mime, buf).extractionStatus = "pending_ocr"

\* Rows of both kinds are stored: a parsed PDF with a text layer or a parsed
\* text, and an image waiting for OCR.
C26_Witness ==
  /\ \E r \in submissions : r.extractionStatus = "parsed" /\ r.extractedText # Null
  /\ \E r \in submissions : r.extractionStatus = "pending_ocr" /\ r.ocrRequired

\* C27: whatever the interleaving of concurrent calls and whichever database
\* call of a createSubmission fails, every submission has at most one created
\* event and at most one follow-up event (parsed or ocr_pending), and a step
\* in which a call ends on the pre-check hit or as the loser of the insert race
\* appends no event.
C27_AtMostOneCreated ==
  [][/\ \A id \in Ids :
          /\ Cardinality({i \in DOMAIN events' :
                             /\ events'[i].submissionId = id
                             /\ events'[i].eventType = "submission.created"}) <= 1
          /\ Cardinality({i \in DOMAIN events' :
                             /\ events'[i].submissionId = id
                             /\ events'[i].eventType \in FollowUps}) <= 1
     /\ \A p \in Procs :
          (result[p].kind = "none" /\ result'[p].path \in {"precheck", "race"})
            => UNCHANGED events]_vars

\* A call failed while writing its created event, and an identical call was
\* answered with that call's row, by the pre-check or as the loser of the race.
C27_Witness ==
  /\ AllDone
  /\ \E p, q \in Procs :
       /\ result[p].code = DbError /\ result[p].path = "created"
       /\ result[q].path \in {"precheck", "race"}
       /\ result[q].submissionId = loc[p].submissionId

\* C28: for every Submission row, the artifact store holds at the row's
\* storagePath the bytes whose SHA-256 is the row's contentHash; no later call
\* overwrites the artifact of a stored row.
C28_ArtifactMatchesHash ==
  \A r \in submissions :
    \E f \in artifacts : f.path = r.storagePath /\ sha256(f.buf) = r.sha256

\* C29: every submissionId a createSubmission call returns with success is
\* the id of a stored Submission row whose assignmentId, studentId and
\* contentHash are those of the call, whether the call ended on the pre-check
\* hit, as the loser of the insert race or with its own insert.
C29_ReturnedIdIsOwnTriple ==
  \A p \in Procs :
    Returned(p)
      => /\ result[p].path \in {"precheck", "race", "inserted"}
         /\ \E r \in submissions :
              /\ r.id = result[p].submissionId
              /\ r.assignmentId = call[p].assignmentId
              /\ r.studentId = call[p].studentId
              /\ r.sha256 = sha256(call[p].buf)

\* One call returned its own insert and another, sending the same bytes under
\* a different declared type, was answered with the same id without inserting.
C29_Witness ==
  \E p, q \in Procs :
    /\ Returned(p) /\ result[p].path = "inserted"
    /\ Returned(q) /\ result[q].path \in {"precheck", "race"}
    /\ result[q].submissionId = result[p].submissionId
    /\ call[q].mime # call[p].mime

\* C30: a createSubmission call with zero-length content ends in an error and
\* leaves nothing behind: no Submission row, no event and no stored artifact
\* of the call exist once it has ended; and every Submission row has
\* 0 < size <= 10,485,760.
C30_EmptyContentNoTrace ==
  /\ \A r \in submissions : 0 < r.size /\ r.size <= 10485760
  /\ \A p \in Procs :
       (Done(p) /\ call[p].buf.size = 0)
         => /\ result[p].kind = "error"
            /\ RowsFor(p) = {}
            /\ \A i \in DOMAIN events : events[i].submissionId # loc[p].submissionId
            /\ ~\E f \in artifacts : f.path = loc[p].storagePath /\ f.buf = call[p].buf

====
